---------------------------- MODULE Spec2Model ----------------------------
(***************************************************************************)
(* A model of ipmi-to-mqtt.py: the polling loop that runs SMCIPMITool,     *)
(* parses its "pminfo" output, integrates the total power into a persisted *)
(* energy counter and publishes the readings over MQTT, together with the  *)
(* paho network thread that delivers on_connect / on_disconnect.           *)
(*                                                                         *)
(* Numbers.  Python floats are modelled by exact integers.  Power is in W, *)
(* time in s, and total_energy_kwh is kept in units of 1/KwhScale kWh, so  *)
(* that ((cur + last) / 2.0) * (dt / 3600.0) / 1000.0 is the integer       *)
(* (cur + last) * dt.  Rounding of the float operations is not modelled.   *)
(***************************************************************************)
EXTENDS Integers, Sequences, FiniteSets, TLC

VARIABLES
    pc,              \* position of the main thread ("exited" after exit(1))
    ENERGY_STATE,    \* the global dict of lines 43-47
    file,            \* content of ENERGY_FILE on disk
    readings,        \* get_readings' local dict while calculate_energy runs
    data,            \* the loop's variable `data` (line 327)
    pubIdx,          \* position of the for loop of lines 334-336
    loopStarted,     \* MQTT_CLIENT.loop_start() has run (network thread alive)
    connected,       \* MQTT_CLIENT.is_connected()
    DISCOVERY_SENT,  \* the global flag of line 38
    discIdx,         \* network thread inside on_connect: 0 outside, 1 at line 82, 2 at line 83
    clock,           \* the last value time.time() returned
    restarts,        \* process restarts so far
    okConnects,      \* history: successful on_connect calls of this process (0, 1, 2 = more)
    discoveryCalls,  \* history: calls of publish_discovery_config by this process
    cyc,             \* history: what the current poll cycle has done
    hist,            \* history: totals computed by calculate_energy, over all processes
    discLog,         \* observer: the discovery messages the process has handed to publish
    rcFailed,        \* observer: on_connect has reported a failure
    run              \* observer: the successful cycles since the first one

vars == <<pc, ENERGY_STATE, file, readings, data, pubIdx, loopStarted, connected,
          DISCOVERY_SENT, discIdx, clock, restarts, okConnects, discoveryCalls,
          cyc, hist, discLog, rcFailed, run>>

-----------------------------------------------------------------------------
(* Bounds of the model *)

MaxTicks == 1       \* the clock advances by at most this many hours
MaxRestarts == 1    \* the process is killed and relaunched at most this often
MaxModules == 1     \* [Module N] headers in one tool output

(* Program constants *)

HourSeconds == 3600
KwhScale == 2 * HourSeconds * 1000
BASE_TOPIC == "techthom/ipmi_host"
HA_DISCOVERY_PREFIX == "homeassistant"

-----------------------------------------------------------------------------
(* Values of a reading: a status string or a float *)

Str(s) == [t |-> "str", s |-> s, n |-> 0]
Num(n) == [t |-> "float", s |-> "", n |-> n]

(* A Python dict with string keys: a sequence of items in insertion order. *)
Keys(d) == {d[i].key : i \in 1..Len(d)}

Get(d, k) == (CHOOSE i \in 1..Len(d) : d[i].key = k)

Put(d, k, v) ==
    IF k \in Keys(d)
    THEN [i \in 1..Len(d) |-> IF d[i].key = k THEN [key |-> k, val |-> v] ELSE d[i]]
    ELSE Append(d, [key |-> k, val |-> v])


-----------------------------------------------------------------------------
(* The sensor catalog of publish_discovery_config.  NoProp marks a property
   the descriptor does not have ('Class' in props is false). *)

NoProp == "<absent>"

Sensor(key, name, unit, icon, class, stateClass) ==
    [key |-> key, Name |-> name, Unit |-> unit, Icon |-> icon,
     Class |-> class, StateClass |-> stateClass]

SENSORS ==
    << Sensor("psu1/status", "PSU 1 Status", "", "mdi:check-circle", NoProp, NoProp),
       Sensor("psu2/status", "PSU 2 Status", "", "mdi:check-circle", NoProp, NoProp),
       Sensor("psu1/volt", "PSU 1 Voltage", "V", "mdi:sine-wave", NoProp, NoProp),
       Sensor("psu2/volt", "PSU 2 Voltage", "V", "mdi:sine-wave", NoProp, NoProp),
       Sensor("psu1/amp", "PSU 1 Ampere", "A", "mdi:current-ac", NoProp, NoProp),
       Sensor("psu2/amp", "PSU 2 Ampere", "A", "mdi:current-ac", NoProp, NoProp),
       Sensor("psu1/watts", "PSU 1 Power", "W", "mdi:flash", NoProp, NoProp),
       Sensor("psu2/watts", "PSU 2 Power", "W", "mdi:flash", NoProp, NoProp),
       Sensor("total/watts", "Total Power", "W", "mdi:flash", "power", NoProp),
       Sensor("total/kwh", "Total Energy", "kWh", "mdi:lightning-bolt", "energy",
              "total_increasing") >>

(* Mutant: the key left out of the topic. *)
full_topic_flat(key) == BASE_TOPIC \o "/power/"

(* The topic the polling loop publishes a key on (line 335). *)
full_topic(key) == BASE_TOPIC \o "/power/" \o key

-----------------------------------------------------------------------------
(* Tool output.  re.split(r"\[Module\s*(\d+)\]", stdout) yields the text
   before the first header and then, per header, its index and the text up
   to the next header: a sequence of segments.  A segment records, for each
   of the four re.search patterns, whether it matches and what group(1)
   converts to. *)

NoMatch == [m |-> FALSE, v |-> Num(0)]
Match(v) == [m |-> TRUE, v |-> v]

Segment(num, status, volt, amp, watts) ==
    [num |-> num, status |-> status, volt |-> volt, amp |-> amp, watts |-> watts]

(* One module of lines 198-241. *)
ParseModule(acc, seg) ==
    LET r1 == IF seg.status.m
              THEN Put(acc.readings, "psu" \o seg.num \o "/status", seg.status.v)
              ELSE acc.readings
        r2 == IF seg.volt.m
              THEN Put(r1, "psu" \o seg.num \o "/volt", seg.volt.v)
              ELSE r1
        r3 == IF seg.amp.m
              THEN Put(r2, "psu" \o seg.num \o "/amp", seg.amp.v)
              ELSE r2
    IN  IF seg.watts.m
        THEN [readings |-> Put(r3, "psu" \o seg.num \o "/watts", seg.watts.v),
              total_watts |-> acc.total_watts + seg.watts.v.n]
        ELSE [readings |-> r3, total_watts |-> acc.total_watts]

RECURSIVE ParseModules(_, _)
ParseModules(modules, i) ==
    IF i = 0
    THEN [readings |-> <<>>, total_watts |-> 0]
    ELSE ParseModule(ParseModules(modules, i - 1), modules[i])

(* Mutant: the modules numbered by a counter instead of the header's index. *)
Parse_sequential(stdout) ==
    ParseModules([i \in 1..Len(stdout) |-> [stdout[i] EXCEPT !.num = ToString(i)]],
                 Len(stdout))

(* Lines 191-245: the readings dict and total_watts of one tool output. *)
Parse(stdout) == ParseModules(stdout, Len(stdout))

-----------------------------------------------------------------------------
(* Mutant: the elapsed time taken the wrong way round. *)
calculate_energy_reversed(state, current_watts, current_ts) ==
    [last_power_w |-> current_watts,
     last_update_ts |-> current_ts,
     total_energy_kwh |-> state.total_energy_kwh
        + (current_watts + state.last_power_w) * (state.last_update_ts - current_ts)]

(* Mutant: the rectangle rule, the current reading over the whole interval. *)
calculate_energy_rectangle(state, current_watts, current_ts) ==
    [last_power_w |-> current_watts,
     last_update_ts |-> current_ts,
     total_energy_kwh |-> state.total_energy_kwh
        + (2 * current_watts) * (current_ts - state.last_update_ts)]

(* Energy integration, lines 273-290 of calculate_energy: the in-memory
   update by the trapezoidal rule, in units of 1/KwhScale kWh. *)

calculate_energy(state, current_watts, current_ts) ==
    [last_power_w |-> current_watts,
     last_update_ts |-> current_ts,
     total_energy_kwh |-> state.total_energy_kwh
        + (current_watts + state.last_power_w) * (current_ts - state.last_update_ts)]

(* The initial ENERGY_STATE of lines 43-47. *)
DefaultEnergyState(now) ==
    [last_power_w |-> 0, last_update_ts |-> now, total_energy_kwh |-> 0]

-----------------------------------------------------------------------------
(* The state file.  Its text is a JSON object: the members written so far,
   and whether the closing brace has been written. *)

NoFile == [exists |-> FALSE, members |-> <<>>, closed |-> FALSE]

(* open(ENERGY_FILE, 'w') truncates the file. *)
Truncated == [exists |-> TRUE, members |-> <<>>, closed |-> FALSE]

(* json.dump(ENERGY_STATE, f), complete. *)
json_dump(state) ==
    [exists |-> TRUE,
     members |-> << [key |-> "last_power_w", val |-> state.last_power_w],
                    [key |-> "last_update_ts", val |-> state.last_update_ts],
                    [key |-> "total_energy_kwh", val |-> state.total_energy_kwh] >>,
     closed |-> TRUE]

(* The text of a write that stopped early: a proper prefix of the text of
   json_dump.  The model keeps two of the prefixes: the empty one (Truncated)
   and the one that ends after the first member. *)
HalfWritten(state) ==
    [exists |-> TRUE, members |-> SubSeq(json_dump(state).members, 1, 1),
     closed |-> FALSE]

InterruptedWrites(state) == {Truncated, HalfWritten(state)}

(* json.load: an object, or an exception for a text that is not one. *)
json_load(f) ==
    IF f.closed THEN [ok |-> TRUE, obj |-> f.members] ELSE [ok |-> FALSE, obj |-> <<>>]

(* Mutant: the loaded object never reaches the global ENERGY_STATE. *)
load_energy_state_local(state, f) == state

(* load_energy_state, lines 51-63: ENERGY_STATE.update(json.load(f)), and
   the defaults when the file is missing or cannot be parsed. *)
load_energy_state(state, f) ==
    IF f.exists /\ json_load(f).ok
    THEN LET obj == json_load(f).obj
         IN  [k \in DOMAIN state |->
                 IF k \in Keys(obj) THEN obj[Get(obj, k)].val ELSE state[k]]
    ELSE state

-----------------------------------------------------------------------------
(* What subprocess.run can give the polling loop: the tool cannot be
   launched (FileNotFoundError), it exits non-zero (CalledProcessError), or
   it prints its report.  The reports of the polling model have their
   modules numbered 1, 2, ... in order; each module shows only its status or
   all four fields.  A report without any module header has no field. *)

SegmentShapes(num) ==
    { Segment(num, Match(Str("OK")), NoMatch, NoMatch, NoMatch),
      Segment(num, Match(Str("OK")), Match(Num(230)), Match(Num(1)), Match(Num(100))) }

PollOutputs ==
    UNION { { o \in [1..n -> UNION {SegmentShapes(ToString(i)) : i \in 1..n}] :
                \A i \in 1..n : o[i].num = ToString(i) } : n \in 0..MaxModules }

ToolResults ==
    { [kind |-> "launch_fail", stdout |-> <<>>],
      [kind |-> "exit_nonzero", stdout |-> <<>>] }
    \cup { [kind |-> "ok", stdout |-> o] : o \in PollOutputs }

-----------------------------------------------------------------------------
(* History of one poll cycle: tool runs and what the last one gave,
   integrations, the outcome of the connection test, the topics
   publish_to_mqtt was called with, and whether ENERGY_STATE and the state
   file are still what they were when the cycle began. *)

NewCycle ==
    [tool |-> 0, result |-> "none", integ |-> 0, conn |-> "untested",
     pubs |-> <<>>, same |-> TRUE]

(* What a tool run gave: its failure, or whether its report shows a field. *)
ResultKind(r) ==
    IF r.kind # "ok" THEN r.kind
    ELSE IF \E i \in 1..Len(r.stdout) :
               r.stdout[i].status.m \/ r.stdout[i].volt.m
                   \/ r.stdout[i].amp.m \/ r.stdout[i].watts.m
         THEN "fields"
         ELSE "no_fields"

Unset == [kind |-> "unset", items |-> <<>>]
None == [kind |-> "none", items |-> <<>>]
Dict(items) == [kind |-> "dict", items |-> items]

(* History of calculate_energy over all processes: the total before and
   after the last in-memory update, whether a complete state file has been
   written, whether a save has raised, and, while the last call has returned
   with its save done and no later call has begun, the state it left. *)
NoHistory ==
    [prev |-> 0, last |-> 0, persisted |-> FALSE, saveError |-> FALSE,
     clean |-> FALSE, done |-> DefaultEnergyState(0)]

(* The observers of the specifications further down, which record what the
   program does without being part of it; Spec leaves them as they are. *)
obsVars == <<discLog, rcFailed, run>>

NoRun ==
    [on |-> FALSE, P |-> 0, t0 |-> 0, e0 |-> 0, const |-> TRUE,
     pending |-> FALSE, missed |-> FALSE]

Init ==
    /\ pc = "start"
    /\ clock = 0
    /\ ENERGY_STATE = DefaultEnergyState(0)
    /\ file = NoFile
    /\ readings = <<>>
    /\ data = Unset
    /\ pubIdx = 0
    /\ loopStarted = FALSE
    /\ connected = FALSE
    /\ DISCOVERY_SENT = FALSE
    /\ discIdx = 0
    /\ restarts = 0
    /\ okConnects = 0
    /\ discoveryCalls = 0
    /\ cyc = NewCycle
    /\ hist = NoHistory
    /\ discLog = <<>>
    /\ rcFailed = FALSE
    /\ run = NoRun

mainVars == <<pc, ENERGY_STATE, file, readings, data, pubIdx, cyc, hist>>
netVars == <<connected, DISCOVERY_SENT, discIdx, okConnects, discoveryCalls>>

-----------------------------------------------------------------------------
(* The main thread *)

(* Mutant: the startup check made after load_energy_state. *)
CheckToolAfterLoad ==
    /\ pc = "start"
    /\ \E present \in BOOLEAN : pc' = IF present THEN "init_mqtt" ELSE "exited"
    /\ ENERGY_STATE' = load_energy_state(ENERGY_STATE, file)
    /\ UNCHANGED <<file, readings, data, pubIdx, cyc, hist, loopStarted, clock, restarts>>
    /\ UNCHANGED netVars

(* Lines 315-317: the startup check of the tool's jar. *)
CheckTool ==
    /\ pc = "start"
    /\ \E present \in BOOLEAN : pc' = IF present THEN "load" ELSE "exited"
    /\ UNCHANGED <<ENERGY_STATE, file, readings, data, pubIdx, cyc, hist,
                   loopStarted, clock, restarts>>
    /\ UNCHANGED netVars

(* Line 320. *)
LoadEnergyState ==
    /\ pc = "load"
    /\ ENERGY_STATE' = load_energy_state(ENERGY_STATE, file)
    /\ pc' = "init_mqtt"
    /\ UNCHANGED <<file, readings, data, pubIdx, cyc, hist, loopStarted, clock, restarts>>
    /\ UNCHANGED netVars

(* Lines 91-118: connect() raises when the broker cannot be reached, and
   loop_start() is then skipped; the loop is entered either way. *)
InitializeMqttClient ==
    /\ pc = "init_mqtt"
    /\ \E reached \in BOOLEAN : loopStarted' = reached
    /\ pc' = "get_readings"
    /\ cyc' = NewCycle
    /\ UNCHANGED <<ENERGY_STATE, file, readings, data, pubIdx, hist, clock, restarts>>
    /\ UNCHANGED netVars

(* Mutant: the test of line 244 dropped. *)
HasReadingsAlways(parsed) == TRUE

(* Line 244: `if readings:`. *)
HasReadings(parsed) == parsed.readings # <<>>

(* time.time(): the wall clock, which the model lets stand or advance by
   whole hours. *)
TimeValues ==
    {t \in {clock + k * HourSeconds : k \in 0..MaxTicks} : t <= MaxTicks * HourSeconds}

(* Lines 184-292: the tool run, the parse and, when a field was captured,
   the in-memory update of calculate_energy; save_energy_state follows. *)
GetReadingsData(r, now) ==
    LET parsed == Parse(r.stdout)
        state == calculate_energy(ENERGY_STATE, parsed.total_watts, now)
    IN  /\ r.kind = "ok"
        /\ HasReadings(parsed)
        /\ clock' = now
        /\ readings' = Put(parsed.readings, "total/watts", Num(parsed.total_watts))
        /\ ENERGY_STATE' = state
        /\ hist' = [hist EXCEPT !.prev = ENERGY_STATE.total_energy_kwh,
                                !.last = state.total_energy_kwh,
                                !.clean = FALSE,
                                !.done = DefaultEnergyState(0)]
        /\ cyc' = [cyc EXCEPT !.tool = @ + 1, !.result = ResultKind(r),
                              !.integ = @ + 1,
                              !.same = @ /\ state = ENERGY_STATE]
        /\ pc' = "save_open"
        /\ UNCHANGED data

(* Mutant: no handler for FileNotFoundError, which ends the main thread. *)
GetReadingsUncaught(r) ==
    /\ r.kind # "ok" \/ ~HasReadings(Parse(r.stdout))
    /\ IF r.kind = "launch_fail"
       THEN pc' = "exited" /\ UNCHANGED data
       ELSE pc' = "check_conn" /\ data' = None
    /\ cyc' = [cyc EXCEPT !.tool = @ + 1, !.result = ResultKind(r)]
    /\ UNCHANGED <<ENERGY_STATE, readings, hist, clock>>

(* Mutant: a cycle without data moves the stored timestamp. *)
GetReadingsNoneStamped(r) ==
    /\ r.kind # "ok" \/ ~HasReadings(Parse(r.stdout))
    /\ data' = None
    /\ cyc' = [cyc EXCEPT !.tool = @ + 1, !.result = ResultKind(r)]
    /\ pc' = "check_conn"
    /\ \E now \in TimeValues :
          /\ clock' = now
          /\ ENERGY_STATE' = [ENERGY_STATE EXCEPT !.last_update_ts = now]
    /\ UNCHANGED <<readings, hist>>

(* Lines 249-263: no field captured, or the tool failed. *)
GetReadingsNone(r) ==
    /\ r.kind # "ok" \/ ~HasReadings(Parse(r.stdout))
    /\ data' = None
    /\ cyc' = [cyc EXCEPT !.tool = @ + 1, !.result = ResultKind(r)]
    /\ pc' = "check_conn"
    /\ UNCHANGED <<ENERGY_STATE, readings, hist, clock>>

GetReadings ==
    /\ pc = "get_readings"
    /\ \E r \in ToolResults :
          \/ \E now \in TimeValues : GetReadingsData(r, now)
          \/ GetReadingsNone(r)
    /\ UNCHANGED <<file, pubIdx, loopStarted, restarts>>
    /\ UNCHANGED netVars

(* Lines 246-247 and 295: calculate_energy returns the total, get_readings
   stores it under total/kwh and returns the dict. *)
ReturnReadings ==
    /\ data' = Dict(Put(readings, "total/kwh", Num(ENERGY_STATE.total_energy_kwh)))
    /\ readings' = <<>>
    /\ pc' = "check_conn"

(* Line 68: open(ENERGY_FILE, 'w') truncates the file, or raises and leaves
   it as it was; the exception is logged (lines 70-71). *)
SaveOpen ==
    /\ pc = "save_open"
    /\ \/ /\ file' = Truncated
          /\ pc' = "save_write"
          /\ UNCHANGED <<data, readings, hist>>
       \/ /\ hist' = [hist EXCEPT !.saveError = TRUE]
          /\ ReturnReadings
          /\ UNCHANGED file
    /\ cyc' = [cyc EXCEPT !.same = @ /\ file' = file]
    /\ UNCHANGED <<ENERGY_STATE, pubIdx, loopStarted, clock, restarts>>
    /\ UNCHANGED netVars

(* Line 69 and the close of the with block: the whole text reaches the file,
   or the write raises and leaves a part of it. *)
SaveWrite ==
    /\ pc = "save_write"
    /\ \/ /\ file' = json_dump(ENERGY_STATE)
          /\ hist' = [hist EXCEPT !.persisted = TRUE, !.clean = TRUE,
                                  !.done = ENERGY_STATE]
       \/ /\ file' \in InterruptedWrites(ENERGY_STATE)
          /\ hist' = [hist EXCEPT !.saveError = TRUE]
    /\ ReturnReadings
    /\ cyc' = [cyc EXCEPT !.same = @ /\ file' = file]
    /\ UNCHANGED <<ENERGY_STATE, pubIdx, loopStarted, clock, restarts>>
    /\ UNCHANGED netVars

(* Lines 330-333: the connection test of the cycle. *)
CheckConnected ==
    /\ pc = "check_conn"
    /\ cyc' = [cyc EXCEPT !.conn = IF connected THEN "connected" ELSE "disconnected"]
    /\ IF connected /\ data.kind = "dict"
       THEN pc' = "publish" /\ pubIdx' = 1
       ELSE pc' = "sleep" /\ pubIdx' = 0
    /\ UNCHANGED <<ENERGY_STATE, file, readings, data, hist, loopStarted, clock, restarts>>
    /\ UNCHANGED netVars

(* Lines 334-336 and 297-308: one publish_to_mqtt call; an exception of
   publish or wait_for_publish is logged and the loop goes on. *)
PublishToMqtt ==
    /\ pc = "publish"
    /\ \E raised \in BOOLEAN :
          cyc' = [cyc EXCEPT !.pubs = Append(@, full_topic(data.items[pubIdx].key))]
    /\ IF pubIdx < Len(data.items)
       THEN pubIdx' = pubIdx + 1 /\ pc' = "publish"
       ELSE pubIdx' = 0 /\ pc' = "sleep"
    /\ UNCHANGED <<ENERGY_STATE, file, readings, data, hist, loopStarted, clock, restarts>>
    /\ UNCHANGED netVars

(* Line 338, and the next iteration begins.  Nothing reads `data` before
   line 327 assigns it again: the model forgets its value here. *)
Sleep ==
    /\ pc = "sleep"
    /\ pc' = "get_readings"
    /\ data' = Unset
    /\ cyc' = NewCycle
    /\ UNCHANGED <<ENERGY_STATE, file, readings, pubIdx, hist, loopStarted,
                   clock, restarts>>
    /\ UNCHANGED netVars

-----------------------------------------------------------------------------
(* The network thread of the MQTT client: it exists once loop_start() has
   run, connects and reconnects by itself and calls the callbacks. *)

(* Mutant: discovery without the test of DISCOVERY_SENT. *)
StartDiscoveryOnEveryConnect ==
    discIdx' = 1 /\ discoveryCalls' = discoveryCalls + 1

(* Lines 81-83, entered from on_connect with rc = 0. *)
StartDiscovery ==
    IF DISCOVERY_SENT
    THEN UNCHANGED <<discIdx, discoveryCalls>>
    ELSE discIdx' = 1 /\ discoveryCalls' = discoveryCalls + 1

(* Mutant: discovery outside the test of rc. *)
OnConnectAnyRc(rc) ==
    /\ loopStarted
    /\ ~connected
    /\ discIdx = 0
    /\ IF rc = 0
       THEN /\ connected' = TRUE
            /\ okConnects' = IF okConnects < 2 THEN okConnects + 1 ELSE okConnects
       ELSE UNCHANGED <<connected, okConnects>>
    /\ StartDiscovery
    /\ UNCHANGED DISCOVERY_SENT
    /\ UNCHANGED <<loopStarted, clock, restarts>>
    /\ UNCHANGED mainVars

(* Lines 75-85: the broker's answer to a connection attempt. *)
OnConnect(rc) ==
    /\ loopStarted
    /\ ~connected
    /\ discIdx = 0
    /\ IF rc = 0
       THEN /\ connected' = TRUE
            /\ okConnects' = IF okConnects < 2 THEN okConnects + 1 ELSE okConnects
            /\ StartDiscovery
       ELSE UNCHANGED <<connected, okConnects, discIdx, discoveryCalls>>
    /\ UNCHANGED DISCOVERY_SENT
    /\ UNCHANGED <<loopStarted, clock, restarts>>
    /\ UNCHANGED mainVars

(* Mutant: `if` for the `elif` of line 173, so that the default comes last. *)
DiscoveryPayloadOverridden(props) ==
    [name |-> props.Name,
     state_topic |-> BASE_TOPIC \o "/power/" \o props.key,
     unit_of_measurement |-> props.Unit,
     icon |-> props.Icon,
     device_class |-> props.Class,
     state_class |-> IF props.Class # NoProp THEN "measurement"
                     ELSE props.StateClass]

(* Lines 159-174: the payload of one catalog entry, with its state topic
   (line 156).  NoProp marks a member the payload does not have.  unique_id,
   device and the discovery topic are not modelled. *)
DiscoveryPayload(props) ==
    [name |-> props.Name,
     state_topic |-> BASE_TOPIC \o "/power/" \o props.key,
     unit_of_measurement |-> props.Unit,
     icon |-> props.Icon,
     device_class |-> props.Class,
     state_class |-> IF props.StateClass # NoProp THEN props.StateClass
                     ELSE IF props.Class # NoProp THEN "measurement"
                     ELSE NoProp]

(* Lines 176-180: in one run of the loop no publish raises (0), or the
   publish of the first catalog entry does (1). *)
DiscoveryFailures == {0, 1}

(* Mutant: the loop left at the first publish that raises. *)
DiscoveryRunAborted(failed) ==
    [i \in 1..(IF failed = 0 THEN Len(SENSORS) ELSE failed) |->
        [key |-> SENSORS[i].key, payload |-> DiscoveryPayload(SENSORS[i]),
         raised |-> (i = failed)]]

(* Lines 148-180: the messages one run of the loop hands to publish, in
   catalog order; `failed` is the position of the message whose publish
   raised (0: none), which lines 179-180 log. *)
DiscoveryRun(failed) ==
    [i \in 1..Len(SENSORS) |->
        [key |-> SENSORS[i].key, payload |-> DiscoveryPayload(SENSORS[i]),
         raised |-> (i = failed)]]

(* Lines 122-180, called from line 82: the discovery messages of all
   catalog entries. *)
PublishDiscovery ==
    /\ discIdx = 1
    /\ discIdx' = 2
    /\ UNCHANGED <<connected, DISCOVERY_SENT, okConnects, discoveryCalls>>
    /\ UNCHANGED <<loopStarted, clock, restarts>>
    /\ UNCHANGED mainVars

(* Line 83. *)
SetDiscoverySent ==
    /\ discIdx = 2
    /\ DISCOVERY_SENT' = TRUE
    /\ discIdx' = 0
    /\ UNCHANGED <<connected, okConnects, discoveryCalls>>
    /\ UNCHANGED <<loopStarted, clock, restarts>>
    /\ UNCHANGED mainVars

(* Lines 87-89: the connection is lost. *)
OnDisconnect ==
    /\ loopStarted
    /\ connected
    /\ discIdx = 0
    /\ connected' = FALSE
    /\ UNCHANGED <<DISCOVERY_SENT, discIdx, okConnects, discoveryCalls>>
    /\ UNCHANGED <<loopStarted, clock, restarts>>
    /\ UNCHANGED mainVars

-----------------------------------------------------------------------------
(* The environment *)

(* The process is killed, at any point, and launched again: the module
   level code of lines 32-47 runs.  A kill inside the write of the state
   file leaves the part of the text that had reached the file. *)
Restart ==
    /\ restarts < MaxRestarts
    /\ restarts' = restarts + 1
    /\ IF pc = "save_write"
       THEN file' \in InterruptedWrites(ENERGY_STATE)
       ELSE UNCHANGED file
    /\ pc' = "start"
    /\ clock' \in TimeValues
    /\ ENERGY_STATE' = DefaultEnergyState(clock')
    /\ readings' = <<>>
    /\ data' = Unset
    /\ pubIdx' = 0
    /\ loopStarted' = FALSE
    /\ connected' = FALSE
    /\ DISCOVERY_SENT' = FALSE
    /\ discIdx' = 0
    /\ okConnects' = 0
    /\ discoveryCalls' = 0
    /\ cyc' = NewCycle
    /\ UNCHANGED hist

MainThread ==
    \/ CheckTool
    \/ LoadEnergyState
    \/ InitializeMqttClient
    \/ GetReadings
    \/ SaveOpen
    \/ SaveWrite
    \/ CheckConnected
    \/ PublishToMqtt
    \/ Sleep

(* The program, every step of which leaves the observers alone. *)
Next ==
    \/ CheckTool /\ UNCHANGED obsVars
    \/ LoadEnergyState /\ UNCHANGED obsVars
    \/ InitializeMqttClient /\ UNCHANGED obsVars
    \/ GetReadings /\ UNCHANGED obsVars
    \/ SaveOpen /\ UNCHANGED obsVars
    \/ SaveWrite /\ UNCHANGED obsVars
    \/ CheckConnected /\ UNCHANGED obsVars
    \/ PublishToMqtt /\ UNCHANGED obsVars
    \/ Sleep /\ UNCHANGED obsVars
    \/ \E rc \in {0, 5} : OnConnect(rc) /\ UNCHANGED obsVars
    \/ PublishDiscovery /\ UNCHANGED obsVars
    \/ SetDiscoverySent /\ UNCHANGED obsVars
    \/ OnDisconnect /\ UNCHANGED obsVars
    \/ Restart /\ UNCHANGED obsVars

Spec == Init /\ [][Next]_vars

(* Fairness.  The main thread keeps running: the tool terminates, file
   operations return or raise, publish and wait_for_publish return or raise,
   sleep returns.  The network thread, once started, keeps running, and a
   broker that is reachable accepts the connection. *)
LiveSpec ==
    /\ Spec
    /\ WF_vars(MainThread /\ UNCHANGED obsVars)
    /\ WF_vars(OnConnect(0) /\ UNCHANGED obsVars)
    /\ WF_vars(PublishDiscovery /\ UNCHANGED obsVars)
    /\ WF_vars(SetDiscoverySent /\ UNCHANGED obsVars)

InLoop == pc \in {"get_readings", "save_open", "save_write", "check_conn", "publish", "sleep"}

(* The step of the main thread in which calculate_energy updates ENERGY_STATE. *)
IntegrateStep == pc = "get_readings" /\ pc' = "save_open"

-----------------------------------------------------------------------------
(* C1.  In one process, publish_discovery_config has been called exactly
   once as soon as one connection callback has reported success, whatever
   callbacks (failed connects, disconnects, reconnects) came before or come
   after, and not at all before. *)
C1_DiscoveryExactlyOnce ==
    discoveryCalls = IF okConnects > 0 THEN 1 ELSE 0

(* A process that has reconnected after its discovery was sent. *)
C1_Witness ==
    okConnects = 2 /\ connected /\ DISCOVERY_SENT /\ discoveryCalls = 1

(* C2.  A call of calculate_energy with a non-negative reading, a timestamp
   not before the stored one and a non-negative stored power does not lower
   total_energy_kwh. *)
C2_IntegrateMonotonic ==
    [][ ( /\ IntegrateStep
          /\ ENERGY_STATE'.last_power_w >= 0
          /\ ENERGY_STATE.last_power_w >= 0
          /\ ENERGY_STATE'.last_update_ts >= ENERGY_STATE.last_update_ts )
        => ENERGY_STATE'.total_energy_kwh >= ENERGY_STATE.total_energy_kwh ]_vars

(* A call has just raised the total. *)
C2_Witness ==
    pc = "save_open" /\ hist.last > hist.prev

(* C3.  calculate_energy adds ((current + last) / 2) * (now - last_ts) /
   3600 / 1000 kWh to the total, which is (current + last) * (now - last_ts)
   units of 1/(2 * 3600 * 1000) kWh, and stores the current power and time;
   from {0 W, 0 kWh, t0}, 100 W at t0 and then 100 W at t0 + 3600 s leave
   0.1 kWh. *)
C3_TrapezoidalRule ==
    [][ IntegrateStep =>
          LET current == readings'[Get(readings', "total/watts")].val.n
              elapsed == clock' - ENERGY_STATE.last_update_ts
          IN  /\ ENERGY_STATE'.total_energy_kwh - ENERGY_STATE.total_energy_kwh
                 = (current + ENERGY_STATE.last_power_w) * elapsed
              /\ ENERGY_STATE'.last_power_w = current
              /\ ENERGY_STATE'.last_update_ts = clock'
              /\ ( /\ ENERGY_STATE.total_energy_kwh = 0
                   /\ ENERGY_STATE.last_power_w = 100
                   /\ current = 100
                   /\ elapsed = 3600 )
                 => ENERGY_STATE'.total_energy_kwh * 10 = KwhScale ]_vars

(* The second call of the example has been made: one increment, of 0.1 kWh,
   which only 100 W at both ends of one hour gives. *)
C3_Witness ==
    /\ pc = "save_open"
    /\ hist.prev = 0
    /\ ENERGY_STATE.total_energy_kwh * 10 = KwhScale
    /\ ENERGY_STATE.last_power_w = 100

(* C4.  A process that starts after a calculate_energy call whose save was
   completed, and before any later call, has after load_energy_state the
   three fields that call left in memory. *)
C4_RoundTrip ==
    (pc = "init_mqtt" /\ restarts > 0 /\ hist.clean) => ENERGY_STATE = hist.done

(* A restarted process has loaded a total that is not the default. *)
C4_Witness ==
    /\ pc = "init_mqtt"
    /\ restarts > 0
    /\ hist.clean
    /\ hist.done.total_energy_kwh > 0

(* C5.  Once a complete state file has been written, and no save has raised,
   the total a restarted process has after load_energy_state is the total of
   the last in-memory update or the one before it. *)
C5_CrashSafePersistence ==
    (pc = "init_mqtt" /\ restarts > 0 /\ hist.persisted /\ ~hist.saveError)
        => ENERGY_STATE.total_energy_kwh \in {hist.last, hist.prev}

(* C6.  Under LiveSpec, a poll cycle that has begun reaches its sleep, and
   a sleeping loop begins the next cycle, unless the process is killed from
   outside: no tool failure, parse failure, save failure, publish failure
   or disconnect ends or stalls the loop. *)
C6_PollingNeverStops ==
    /\ (pc = "get_readings") ~> (pc = "sleep" \/ pc = "start")
    /\ (pc = "sleep") ~> (pc = "get_readings" \/ pc = "start")

(* A process that has had a save failure and a disconnect begins a cycle. *)
C6_Witness ==
    /\ pc = "get_readings"
    /\ restarts = 0
    /\ hist.saveError
    /\ okConnects > 0
    /\ ~connected

(* C7.  In a cycle whose tool run failed or whose report shows no field,
   get_readings returns None, nothing is published, and ENERGY_STATE and the
   state file stay as they were; a dict that get_readings returns has a key
   of a module. *)
C7_NoDataCycle ==
    /\ (InLoop /\ cyc.result \in {"launch_fail", "exit_nonzero", "no_fields"})
          => /\ pc \in {"check_conn", "sleep"}
             /\ data = None
             /\ cyc.pubs = <<>>
             /\ cyc.integ = 0
             /\ cyc.same
    /\ data.kind = "dict"
          => \E k \in Keys(data.items) : k \notin {"total/watts", "total/kwh"}

(* A connected process, with a total saved earlier, ends a cycle whose report
   showed no field. *)
C7_Witness ==
    /\ pc = "sleep"
    /\ cyc.result = "no_fields"
    /\ cyc.conn = "connected"
    /\ hist.persisted
    /\ restarts = 0

(* C8.  At the end of every cycle the tool has been run once and
   calculate_energy has been called once if the report showed a field and
   not otherwise; if the connection test found the bus connected,
   publish_to_mqtt has been called once for every key of the dict, in order,
   with the topic BASE_TOPIC/power/key; if it found it disconnected, it has
   not been called. *)
C8_CycleWork ==
    pc = "sleep" =>
        /\ cyc.tool = 1
        /\ cyc.integ = IF cyc.result = "fields" THEN 1 ELSE 0
        /\ cyc.result = "fields" <=> data.kind = "dict"
        /\ (cyc.conn = "connected" /\ data.kind = "dict")
              => cyc.pubs = [i \in 1..Len(data.items) |->
                                BASE_TOPIC \o "/power/" \o data.items[i].key]
        /\ cyc.conn = "disconnected" => cyc.pubs = <<>>
        /\ cyc.conn \in {"connected", "disconnected"}

(* A cycle that found the bus disconnected has integrated and changed the
   energy state. *)
C8_Witness ==
    /\ pc = "sleep"
    /\ cyc.conn = "disconnected"
    /\ cyc.integ = 1
    /\ ~cyc.same
    /\ cyc.pubs = <<>>

(* C9.  publish_to_mqtt is never called while the bus is disconnected. *)
C9_NoPublishWhileDisconnected ==
    [][ (pc = "publish" /\ Len(cyc'.pubs) = Len(cyc.pubs) + 1) => connected ]_vars

(* C10.  Under LiveSpec, a polling loop whose bus is not connected gets
   connected again without a restart of the process. *)
C10_PublishingResumes ==
    (InLoop /\ ~connected) ~> (connected \/ ~InLoop)

-----------------------------------------------------------------------------
(* The parser on its own: get_readings applied once to a tool output drawn
   from a larger set of reports.  The headers carry any of ParseNums, in any
   order and with repetitions; every field of a module is shown or not, and
   the power field has one of two values.  float() accepts every text the
   numeric patterns capture (digits, with an optional dot and fraction), and
   str() accepts any text: no conversion of a captured text raises. *)

MaxSegments == 2    \* [Module N] headers in one report given to the parser

ParseNums == {"1", "2", "5"}

ParseSegments ==
    { Segment(num, status, volt, amp, watts) :
        num \in ParseNums,
        status \in {NoMatch, Match(Str("OK"))},
        volt \in {NoMatch, Match(Num(230))},
        amp \in {NoMatch, Match(Num(1))},
        watts \in {NoMatch, Match(Num(100)), Match(Num(250))} }

ParseOutputs == UNION { [1..n -> ParseSegments] : n \in 0..MaxSegments }

Stdout(items) == [kind |-> "stdout", items |-> items]

ParseInit ==
    /\ pc = "parse"
    /\ data \in {Stdout(o) : o \in ParseOutputs}
    /\ clock = 0
    /\ ENERGY_STATE = DefaultEnergyState(0)
    /\ file = NoFile
    /\ readings = <<>>
    /\ pubIdx = 0
    /\ loopStarted = FALSE
    /\ connected = FALSE
    /\ DISCOVERY_SENT = FALSE
    /\ discIdx = 0
    /\ restarts = 0
    /\ okConnects = 0
    /\ discoveryCalls = 0
    /\ cyc = NewCycle
    /\ hist = NoHistory
    /\ discLog = <<>>
    /\ rcFailed = FALSE
    /\ run = NoRun

(* Lines 191-247 for the report held in `data`. *)
ParseGetReadings ==
    /\ pc = "parse"
    /\ LET r == [kind |-> "ok", stdout |-> data.items]
       IN  \/ GetReadingsData(r, clock)
           \/ GetReadingsNone(r)
    /\ UNCHANGED <<file, pubIdx, loopStarted, restarts>>
    /\ UNCHANGED netVars
    /\ UNCHANGED obsVars

ParseNext == ParseGetReadings

ParseSpec == ParseInit /\ [][ParseNext]_vars

(* The parser has returned a dict for the report in `data`. *)
Parsed == pc = "save_open" /\ data.kind = "stdout"

FieldNames == {"status", "volt", "amp", "watts"}

DistinctHeaders(stdout) ==
    \A i, j \in 1..Len(stdout) : stdout[i].num = stdout[j].num => i = j

ModuleKeys(d) == Keys(d) \ {"total/watts", "total/kwh"}

(* C11.  For a report whose headers have distinct indices, the per-module
   keys of the returned dict are exactly psu<N>/<field> for every module N,
   N being the index its header shows, and every field its segment shows:
   8 keys for two modules with all fields, and one key fewer, all others
   kept, for a module that lacks one field. *)
C11_ModuleKeys ==
    (Parsed /\ DistinctHeaders(data.items)) =>
        LET stdout == data.items
            shown == {<<i, f>> \in (1..Len(stdout)) \X FieldNames : stdout[i][f].m}
        IN  /\ ModuleKeys(readings)
                 = {"psu" \o stdout[x[1]].num \o "/" \o x[2] : x \in shown}
            /\ Cardinality(ModuleKeys(readings)) = Cardinality(shown)
            /\ (Len(stdout) = 2 /\ Cardinality(shown) = 8)
                  => Cardinality(ModuleKeys(readings)) = 8

(* Modules 5 and 1, in this order; module 1 lacks its voltage only. *)
C11_Witness ==
    /\ Parsed
    /\ Len(data.items) = 2
    /\ data.items[1].num = "5"
    /\ data.items[2].num = "1"
    /\ \A f \in FieldNames : data.items[1][f].m
    /\ \A f \in FieldNames : data.items[2][f].m <=> f # "volt"
    /\ ModuleKeys(readings) = {"psu5/status", "psu5/volt", "psu5/amp", "psu5/watts",
                               "psu1/status", "psu1/amp", "psu1/watts"}

(* The sum of the values the dict d holds under its psu<N>/watts keys,
   taken over its first n items. *)
RECURSIVE StoredWatts(_, _)
StoredWatts(d, n) ==
    IF n = 0 THEN 0
    ELSE StoredWatts(d, n - 1)
         + (IF d[n].key \in {"psu" \o num \o "/watts" : num \in ParseNums}
            THEN d[n].val.n ELSE 0)

(* C12.  In every dict the parser returns, total/watts is the sum of the
   values stored under the psu<N>/watts keys of that dict, also when an
   index appears in more than one header. *)
C12_TotalIsStoredSum ==
    Parsed => readings[Get(readings, "total/watts")].val.n
                 = StoredWatts(readings, Len(readings))

-----------------------------------------------------------------------------
(* One process lifetime, with the discovery observed: discLog receives the
   messages of every run of publish_discovery_config, of which one may have
   raised in publish. *)

LoggedPublishDiscovery(failures) ==
    /\ PublishDiscovery
    /\ \E failed \in failures : discLog' = discLog \o DiscoveryRun(failed)
    /\ UNCHANGED <<rcFailed, run>>

DiscoveryNext ==
    \/ MainThread /\ UNCHANGED obsVars
    \/ \E rc \in {0, 5} : OnConnect(rc) /\ UNCHANGED obsVars
    \/ LoggedPublishDiscovery(DiscoveryFailures)
    \/ SetDiscoverySent /\ UNCHANGED obsVars
    \/ OnDisconnect /\ UNCHANGED obsVars

DiscoverySpec == Init /\ [][DiscoveryNext]_vars

(* One process lifetime, with the connection callbacks observed: rcFailed
   records a callback that reported a failure before any reported success,
   and discLog receives the messages of the discovery. *)

LoggedOnConnect(rc) ==
    /\ OnConnect(rc)
    /\ rcFailed' = (rcFailed \/ (rc # 0 /\ okConnects = 0))
    /\ UNCHANGED <<discLog, run>>

ConnectNext ==
    \/ MainThread /\ UNCHANGED obsVars
    \/ \E rc \in {0, 5} : LoggedOnConnect(rc)
    \/ LoggedPublishDiscovery({0})
    \/ SetDiscoverySent /\ UNCHANGED obsVars
    \/ OnDisconnect /\ UNCHANGED obsVars

ConnectSpec == Init /\ [][ConnectNext]_vars

CatalogKeys == [i \in 1..Len(SENSORS) |-> SENSORS[i].key]

(* C14.  Whether a publish of the discovery loop raised or not, the log of
   the process holds one message for every catalog entry, in catalog order,
   once the loop has ended, and never more; and once on_connect has
   returned from the discovery, the flag is set. *)
C14_DiscoveryFireAndForget ==
    /\ discLog # <<>> => [i \in 1..Len(discLog) |-> discLog[i].key] = CatalogKeys
    /\ (discIdx = 2 \/ DISCOVERY_SENT) <=> discLog # <<>>
    /\ (discIdx = 0 /\ discLog # <<>>) => DISCOVERY_SENT

(* The first discovery message failed; the process has since lost the
   connection and got it back. *)
C14_Witness ==
    /\ discLog # <<>>
    /\ discLog[1].raised
    /\ DISCOVERY_SENT
    /\ okConnects = 2
    /\ connected
    /\ discIdx = 0

(* C15.  Before the first connection callback that reports success nothing
   of the discovery has happened, failed callbacks included: no call, no
   message, no flag.  After it, failed callbacks before it or not, the
   discovery has been called once, and its messages are out as soon as the
   call has returned. *)
C15_DiscoveryAfterConnect ==
    /\ okConnects = 0 =>
          discoveryCalls = 0 /\ discLog = <<>> /\ ~DISCOVERY_SENT /\ discIdx = 0
    /\ okConnects > 0 =>
          discoveryCalls = 1 /\ (discIdx # 1 => Len(discLog) = Len(SENSORS))

(* A failed callback, then the first successful one, whose discovery is out. *)
C15_Witness ==
    /\ rcFailed
    /\ okConnects = 1
    /\ connected
    /\ DISCOVERY_SENT
    /\ Len(discLog) = Len(SENSORS)

(* The catalog entry of a key. *)
Descriptor(key) == SENSORS[CHOOSE i \in 1..Len(SENSORS) : SENSORS[i].key = key]

(* C16.  Every discovery message carries a state_class exactly if its
   catalog entry has a Class or a StateClass: the entry's StateClass if it
   has one, "measurement" otherwise.  So total/watts goes out with
   "measurement", total/kwh with "total_increasing", and the entries of the
   modules with none. *)
C16_StateClass ==
    \A i \in 1..Len(discLog) :
        LET msg == discLog[i]
            props == Descriptor(msg.key)
        IN  /\ (msg.payload.state_class # NoProp)
                  <=> (props.Class # NoProp \/ props.StateClass # NoProp)
            /\ msg.payload.state_class # NoProp =>
                  msg.payload.state_class
                     = IF props.StateClass # NoProp THEN props.StateClass
                       ELSE "measurement"
            /\ msg.key = "total/watts" => msg.payload.state_class = "measurement"
            /\ msg.key = "total/kwh" => msg.payload.state_class = "total_increasing"
            /\ msg.key \notin {"total/watts", "total/kwh"}
                  => msg.payload.state_class = NoProp

(* The discovery has been published: the messages of total/watts, of
   total/kwh and of a module field are in the log. *)
C16_Witness ==
    /\ \E i \in 1..Len(discLog) :
          discLog[i].key = "total/kwh" /\ discLog[i].payload.device_class = "energy"
    /\ \E i \in 1..Len(discLog) :
          discLog[i].key = "total/watts" /\ discLog[i].payload.device_class = "power"
    /\ \E i \in 1..Len(discLog) :
          discLog[i].key = "psu1/status" /\ discLog[i].payload.device_class = NoProp

(* C17.  A process that has exited for want of the tool's jar has done
   nothing else: ENERGY_STATE is as the module level code left it (no load),
   no network thread and no connection exist, no discovery was called, and
   no cycle has begun (no tool run, no publish).  A tool that cannot be
   launched or that fails inside a cycle leaves the process in its loop. *)
C17_AbortBeforeLoop ==
    /\ pc = "exited" =>
          /\ ENERGY_STATE = DefaultEnergyState(clock)
          /\ ~loopStarted /\ ~connected /\ okConnects = 0
          /\ discoveryCalls = 0 /\ discIdx = 0 /\ ~DISCOVERY_SENT
          /\ cyc = NewCycle /\ data = Unset /\ readings = <<>> /\ pubIdx = 0
    /\ cyc.result \in {"launch_fail", "exit_nonzero"} => InLoop

(* The relaunched process exits although a state file is there whose load
   would have changed ENERGY_STATE. *)
C17_Witness ==
    /\ pc = "exited"
    /\ restarts > 0
    /\ json_load(file).ok
    /\ load_energy_state(ENERGY_STATE, file) # ENERGY_STATE

-----------------------------------------------------------------------------
(* One process lifetime, with the cycles observed.  From the first cycle
   that integrates, `run` keeps its power P, its timestamp t0 and the total
   e0 it left, whether a cycle without data has come since the last
   integrating one (pending), and whether an integrating cycle has come
   after such a cycle (missed).  The first integrating cycle with another
   total power ends the observation (const is FALSE from then on). *)

RunEnded ==
    [on |-> TRUE, P |-> 0, t0 |-> 0, e0 |-> 0, const |-> FALSE,
     pending |-> FALSE, missed |-> FALSE]

ObserveCycle ==
    IF ~run.const
    THEN UNCHANGED run
    ELSE IF pc' = "save_open"
    THEN run' = IF ~run.on
                THEN [on |-> TRUE, P |-> ENERGY_STATE'.last_power_w,
                      t0 |-> ENERGY_STATE'.last_update_ts,
                      e0 |-> ENERGY_STATE'.total_energy_kwh,
                      const |-> TRUE, pending |-> FALSE, missed |-> FALSE]
                ELSE IF ENERGY_STATE'.last_power_w = run.P
                THEN [run EXCEPT !.missed = @ \/ run.pending, !.pending = FALSE]
                ELSE RunEnded
    ELSE run' = [run EXCEPT !.pending = run.on]

ObservedGetReadings ==
    /\ GetReadings
    /\ ObserveCycle
    /\ UNCHANGED <<discLog, rcFailed>>

EnergyNext ==
    \/ ObservedGetReadings
    \/ pc # "get_readings" /\ MainThread /\ UNCHANGED obsVars
    \/ \E rc \in {0, 5} : OnConnect(rc) /\ UNCHANGED obsVars
    \/ PublishDiscovery /\ UNCHANGED obsVars
    \/ SetDiscoverySent /\ UNCHANGED obsVars
    \/ OnDisconnect /\ UNCHANGED obsVars

EnergySpec == Init /\ [][EnergyNext]_vars

(* C18.  While every integrating cycle since the first has had the total
   power P, the total accumulated since the first is P times the time from
   the first to the last of them, which is 2 * P * seconds units of
   1/KwhScale kWh, whatever cycles without data lie in between. *)
C18_MissedCycles ==
    (run.on /\ run.const) =>
        ENERGY_STATE.total_energy_kwh - run.e0
           = 2 * run.P * (ENERGY_STATE.last_update_ts - run.t0)

(* 100 W at the first cycle and, an hour and a cycle without data later,
   100 W again. *)
C18_Witness ==
    /\ run.on
    /\ run.const
    /\ run.missed
    /\ run.P = 100
    /\ ENERGY_STATE.last_update_ts = run.t0 + HourSeconds
    /\ ENERGY_STATE.total_energy_kwh > run.e0

(* C19.  Every key of a dict that get_readings returns, total/kwh
   included, has a catalog entry, and the state_topic of that entry's
   discovery payload is the topic the polling loop publishes the key on. *)
C19_PublishedKeysInCatalog ==
    Parsed =>
        \A k \in Keys(readings) \cup {"total/kwh"} :
            \E i \in 1..Len(SENSORS) :
                /\ SENSORS[i].key = k
                /\ DiscoveryPayload(SENSORS[i]).state_topic = full_topic(k)

(* C20.  The polling loop has called publish_to_mqtt in a cycle only if the
   discovery loop of the first successful connection has ended. *)
C20_DiscoveryPrecedesState ==
    cyc.pubs # <<>> => (discIdx = 2 \/ DISCOVERY_SENT)

=============================================================================
